---- MODULE Spec2Model ----
(***************************************************************************)
(* Model of apps/brightpal-app/src-tauri/src/macos/screenshot.rs:          *)
(* the tauri command capture_screen_interactive, the external capture tool *)
(* it launches through /usr/bin/env, the millisecond clock it derives the  *)
(* temp file name from, and the temp directory the tool writes into.       *)
(*                                                                         *)
(* Strings are sequences of pieces: format!("{}/x-{}.png", d, ts) is       *)
(* <<d, "/x-", ts, ".png">>, String::new() is <<>>.  A base64 text is the  *)
(* sequence of its characters.                                             *)
(***************************************************************************)
EXTENDS Integers, Sequences, FiniteSets, TLC

\* Number of invocations of the command the host application makes.
NumInv == 2
\* Largest number of bytes the capture tool writes to the output file.
MaxLen == 3
\* Largest value the millisecond clock reaches.
MaxClock == 1

Inv == 1..NumInv

(***************************************************************************)
(* Platform gate: #[cfg(target_os = "macos")] / #[cfg(not(...))].          *)
(***************************************************************************)
Platforms == {"macos", "linux", "windows"}

IsMacos(p) == p = "macos"

(***************************************************************************)
(* The temp file path, lines 12-18.                                        *)
(***************************************************************************)
TempDir == "$TMPDIR"

FilePath(t) == <<TempDir, "/brightpal-screenshot-", ToString(t), ".png">>

Paths == {FilePath(t) : t \in 0..MaxClock}

NoFile == <<>>

(***************************************************************************)
(* The command line, lines 20-26.                                          *)
(***************************************************************************)
ArgvNoShadowDropped(f) == <<"/usr/bin/env", "screencapture", "-i", "-s", f>>

Argv(f) == <<"/usr/bin/env", "screencapture", "-i", "-s", "-o", f>>

NoArgv == <<>>

\* What /usr/bin/env does with its first argument: it searches the
\* directories of the caller's PATH, in order, for an executable of that
\* name and runs the first it finds; with none it exits with status 127.
Installed == {<<"/usr/sbin", "screencapture">>, <<"/opt/local/bin", "screencapture">>}

PathEnvs == {<<"/usr/sbin">>, <<"/opt/local/bin", "/usr/sbin">>, <<"/usr/bin">>}

NotFound == <<"not found">>

NoExe == <<>>

RECURSIVE Resolve(_, _)
Resolve(dirs, name) ==
    IF dirs = <<>> THEN NotFound
    ELSE IF <<Head(dirs), name>> \in Installed THEN <<Head(dirs), name>>
    ELSE Resolve(Tail(dirs), name)

EnvNotFoundStatus == 127

\* io::Error texts Command::status() can fail with.
SpawnErrors == {"No such file or directory (os error 2)"}

(***************************************************************************)
(* File contents.                                                          *)
(***************************************************************************)
\* The tool writes a PNG; its first bytes are the PNG signature.
PngSignature == <<137, 80, 78, 71, 13, 10, 26, 10>>

Contents == {SubSeq(PngSignature, 1, n) : n \in 0..MaxLen}

Absent == [exists |-> FALSE, data |-> <<>>]

FileOf(c) == [exists |-> TRUE, data |-> c]

(***************************************************************************)
(* base64::engine::general_purpose::STANDARD, line 35: the RFC 4648        *)
(* alphabet with '=' padding.                                              *)
(***************************************************************************)
Alphabet ==
    << "A", "B", "C", "D", "E", "F", "G", "H", "I", "J", "K", "L", "M",
       "N", "O", "P", "Q", "R", "S", "T", "U", "V", "W", "X", "Y", "Z",
       "a", "b", "c", "d", "e", "f", "g", "h", "i", "j", "k", "l", "m",
       "n", "o", "p", "q", "r", "s", "t", "u", "v", "w", "x", "y", "z",
       "0", "1", "2", "3", "4", "5", "6", "7", "8", "9", "+", "/" >>

Pad == "="

Sextet(n, k) == Alphabet[((n \div (64 ^ (3 - k))) % 64) + 1]

EncodeChunk(b) ==
    LET b1 == b[1]
        b2 == IF Len(b) >= 2 THEN b[2] ELSE 0
        b3 == IF Len(b) >= 3 THEN b[3] ELSE 0
        n  == b1 * 65536 + b2 * 256 + b3
    IN  << Sextet(n, 0), Sextet(n, 1),
           IF Len(b) >= 2 THEN Sextet(n, 2) ELSE Pad,
           IF Len(b) >= 3 THEN Sextet(n, 3) ELSE Pad >>

RECURSIVE Encode(_)
Encode(bytes) ==
    IF bytes = <<>> THEN <<>>
    ELSE IF Len(bytes) <= 3 THEN EncodeChunk(bytes)
    ELSE EncodeChunk(SubSeq(bytes, 1, 3)) \o Encode(SubSeq(bytes, 4, Len(bytes)))

CharIndex(c) == (CHOOSE k \in 1..64 : Alphabet[k] = c) - 1

DecodeChunk(q) ==
    LET v(k) == IF q[k] = Pad THEN 0 ELSE CharIndex(q[k])
        n    == v(1) * 262144 + v(2) * 4096 + v(3) * 64 + v(4)
        all  == << n \div 65536, (n \div 256) % 256, n % 256 >>
    IN  IF q[3] = Pad THEN SubSeq(all, 1, 1)
        ELSE IF q[4] = Pad THEN SubSeq(all, 1, 2)
        ELSE all

RECURSIVE Decode(_)
Decode(chars) ==
    IF Len(chars) < 4 THEN <<>>
    ELSE DecodeChunk(SubSeq(chars, 1, 4)) \o Decode(SubSeq(chars, 5, Len(chars)))

UrlPrefix == "data:image/png;base64,"

DataUrlNoPrefix(b64) == b64

DataUrl(b64) == <<UrlPrefix>> \o b64

(***************************************************************************)
(* Return values: Result<(String, String), String>.                        *)
(***************************************************************************)
NoResult == [kind |-> "none", path |-> <<>>, url |-> <<>>, msg |-> <<>>]

Ok(p, u) == [kind |-> "Ok", path |-> p, url |-> u, msg |-> <<>>]

Err(m) == [kind |-> "Err", path |-> <<>>, url |-> <<>>, msg |-> m]

EmptyPair == Ok(<<>>, <<>>)

(***************************************************************************)
(* State.                                                                  *)
(***************************************************************************)
VARIABLES
    platform,   \* the target_os the crate was built for
    clock,      \* the last SystemTime::now() reading, in milliseconds
    fs,         \* the temp directory: path -> file
    pc,         \* each invocation's position in the function
    file,       \* each invocation's local `file`
    argv,       \* the command line each invocation launched
    child,      \* each invocation's child process
    capturer,   \* the executable each running child resolved screencapture to
    status,     \* each child's exit status
    bytes,      \* each invocation's local `bytes`
    readRes,    \* outcome of each invocation's std::fs::read
    spawns,     \* number of processes each invocation has launched
    reads,      \* number of times each invocation has read the file
    result      \* what each invocation returned

vars == << platform, clock, fs, pc, file, argv, child, capturer,
           status, bytes, readRes, spawns, reads, result >>

proc == << file, argv, child, capturer, status, bytes, readRes, spawns, reads >>

NoStatus == -1

Init ==
    /\ platform \in Platforms
    /\ clock = 0
    /\ fs = [p \in Paths |-> Absent]
    /\ pc = [i \in Inv |-> "idle"]
    /\ file = [i \in Inv |-> NoFile]
    /\ argv = [i \in Inv |-> NoArgv]
    /\ child = [i \in Inv |-> "none"]
    /\ capturer = [i \in Inv |-> NoExe]
    /\ status = [i \in Inv |-> NoStatus]
    /\ bytes = [i \in Inv |-> <<>>]
    /\ readRes = [i \in Inv |-> "none"]
    /\ spawns = [i \in Inv |-> 0]
    /\ reads = [i \in Inv |-> 0]
    /\ result = [i \in Inv |-> NoResult]

\* Lines 39-42: the body compiled on every target but macOS.
UnsupportedAsEmptyPair(i) ==
    /\ pc[i] = "idle"
    /\ ~IsMacos(platform)
    /\ result' = [result EXCEPT ![i] = EmptyPair]
    /\ pc' = [pc EXCEPT ![i] = "done"]
    /\ UNCHANGED << platform, clock, fs, proc >>

Unsupported(i) ==
    /\ pc[i] = "idle"
    /\ ~IsMacos(platform)
    /\ result' = [result EXCEPT ![i] = Err(<<"unsupported">>)]
    /\ pc' = [pc EXCEPT ![i] = "done"]
    /\ UNCHANGED << platform, clock, fs, proc >>

\* Lines 12-18: read the clock, build the file name.  SystemTime::now()
\* returns the time of the previous reading or a later one.
MakePath(i) ==
    /\ pc[i] = "idle"
    /\ IsMacos(platform)
    /\ \E now \in clock..MaxClock :
         /\ clock' = now
         /\ file' = [file EXCEPT ![i] = FilePath(now)]
    /\ pc' = [pc EXCEPT ![i] = "spawn"]
    /\ UNCHANGED << platform, fs, argv, child, capturer,
                    status, bytes, readRes, spawns, reads, result >>

\* Lines 20-27, Command::status() launching the child: /usr/bin/env starts
\* and looks screencapture up in the PATH the caller's environment holds.
SpawnOk(i) ==
    /\ pc[i] = "spawn"
    /\ \E dirs \in PathEnvs :
         capturer' = [capturer EXCEPT ![i] = Resolve(dirs, Argv(file[i])[2])]
    /\ argv' = [argv EXCEPT ![i] = Argv(file[i])]
    /\ child' = [child EXCEPT ![i] = "running"]
    /\ spawns' = [spawns EXCEPT ![i] = @ + 1]
    /\ pc' = [pc EXCEPT ![i] = "wait"]
    /\ UNCHANGED << platform, clock, fs, file, status, bytes,
                    readRes, reads, result >>

\* Lines 26-27: the launch fails; map_err and `?` return the error.
SpawnFailSwallowed(i) ==
    /\ pc[i] = "spawn"
    /\ argv' = [argv EXCEPT ![i] = Argv(file[i])]
    /\ child' = [child EXCEPT ![i] = "failed"]
    /\ spawns' = [spawns EXCEPT ![i] = @ + 1]
    /\ result' = [result EXCEPT ![i] = EmptyPair]
    /\ pc' = [pc EXCEPT ![i] = "done"]
    /\ UNCHANGED << platform, clock, fs, file, capturer, status,
                    bytes, readRes, reads >>

SpawnFail(i) ==
    /\ pc[i] = "spawn"
    /\ \E e \in SpawnErrors :
         result' = [result EXCEPT ![i] =
                      Err(<<"failed to run screencapture: ", e>>)]
    /\ argv' = [argv EXCEPT ![i] = Argv(file[i])]
    /\ child' = [child EXCEPT ![i] = "failed"]
    /\ spawns' = [spawns EXCEPT ![i] = @ + 1]
    /\ pc' = [pc EXCEPT ![i] = "done"]
    /\ UNCHANGED << platform, clock, fs, file, capturer, status,
                    bytes, readRes, reads >>

\* The child: env found no screencapture in PATH and exits 127.
EnvExit(i) ==
    /\ child[i] = "running"
    /\ capturer[i] = NotFound
    /\ child' = [child EXCEPT ![i] = "exited"]
    /\ status' = [status EXCEPT ![i] = EnvNotFoundStatus]
    /\ capturer' = [capturer EXCEPT ![i] = NoExe]
    /\ UNCHANGED << platform, clock, fs, pc, file, argv,
                    bytes, readRes, spawns, reads, result >>

\* The child: the capture tool ends.  It may or may not have written its
\* last argument (the user selected a region, or pressed escape), and exits
\* with success or not.
ToolExit(i) ==
    /\ child[i] = "running"
    /\ capturer[i] # NotFound
    /\ capturer' = [capturer EXCEPT ![i] = NoExe]
    /\ \E st \in {0, 1} :
         status' = [status EXCEPT ![i] = st]
    /\ \/ UNCHANGED fs
       \/ \E c \in Contents :
            LET out == argv[i][Len(argv[i])]
            IN  fs' = [fs EXCEPT ![out] = FileOf(c)]
    /\ child' = [child EXCEPT ![i] = "exited"]
    /\ UNCHANGED << platform, clock, pc, file, argv, bytes,
                    readRes, spawns, reads, result >>

\* Lines 26-30: status() returns once the child has exited.
CheckStatusTimeout(i) ==
    /\ pc[i] = "wait"
    /\ IF child[i] = "exited" /\ status[i] = 0
       THEN /\ pc' = [pc EXCEPT ![i] = "read"]
            /\ UNCHANGED result
       ELSE /\ pc' = [pc EXCEPT ![i] = "done"]
            /\ result' = [result EXCEPT ![i] = EmptyPair]
    /\ UNCHANGED << platform, clock, fs, proc >>

CheckStatusRetry(i) ==
    /\ pc[i] = "wait"
    /\ child[i] = "exited"
    /\ IF status[i] = 0
       THEN /\ pc' = [pc EXCEPT ![i] = "read"]
            /\ UNCHANGED result
       ELSE IF spawns[i] < 2
       THEN /\ pc' = [pc EXCEPT ![i] = "spawn"]
            /\ UNCHANGED result
       ELSE /\ pc' = [pc EXCEPT ![i] = "done"]
            /\ result' = [result EXCEPT ![i] = EmptyPair]
    /\ UNCHANGED << platform, clock, fs, proc >>

CheckStatus(i) ==
    /\ pc[i] = "wait"
    /\ child[i] = "exited"
    /\ IF status[i] = 0
       THEN /\ pc' = [pc EXCEPT ![i] = "read"]
            /\ UNCHANGED result
       ELSE /\ pc' = [pc EXCEPT ![i] = "done"]
            /\ result' = [result EXCEPT ![i] = EmptyPair]
    /\ UNCHANGED << platform, clock, fs, proc >>

\* Lines 31-34: std::fs::read(&file).
ReadFailIsErr(i) ==
    /\ pc[i] = "read"
    /\ reads' = [reads EXCEPT ![i] = @ + 1]
    /\ IF fs[file[i]].exists
       THEN /\ bytes' = [bytes EXCEPT ![i] = fs[file[i]].data]
            /\ readRes' = [readRes EXCEPT ![i] = "ok"]
            /\ pc' = [pc EXCEPT ![i] = "encode"]
            /\ UNCHANGED result
       ELSE /\ readRes' = [readRes EXCEPT ![i] = "err"]
            /\ pc' = [pc EXCEPT ![i] = "done"]
            /\ result' = [result EXCEPT ![i] = Err(<<"failed to read screenshot">>)]
            /\ UNCHANGED bytes
    /\ UNCHANGED << platform, clock, fs, file, argv, child,
                    capturer, status, spawns >>

ReadThenRemove(i) ==
    /\ pc[i] = "read"
    /\ reads' = [reads EXCEPT ![i] = @ + 1]
    /\ IF fs[file[i]].exists
       THEN /\ bytes' = [bytes EXCEPT ![i] = fs[file[i]].data]
            /\ readRes' = [readRes EXCEPT ![i] = "ok"]
            /\ pc' = [pc EXCEPT ![i] = "encode"]
            /\ UNCHANGED result
       ELSE /\ readRes' = [readRes EXCEPT ![i] = "err"]
            /\ pc' = [pc EXCEPT ![i] = "done"]
            /\ result' = [result EXCEPT ![i] = EmptyPair]
            /\ UNCHANGED bytes
    /\ fs' = [fs EXCEPT ![file[i]] = Absent]
    /\ UNCHANGED << platform, clock, file, argv, child,
                    capturer, status, spawns >>

Read(i) ==
    /\ pc[i] = "read"
    /\ reads' = [reads EXCEPT ![i] = @ + 1]
    /\ IF fs[file[i]].exists
       THEN /\ bytes' = [bytes EXCEPT ![i] = fs[file[i]].data]
            /\ readRes' = [readRes EXCEPT ![i] = "ok"]
            /\ pc' = [pc EXCEPT ![i] = "encode"]
            /\ UNCHANGED result
       ELSE /\ readRes' = [readRes EXCEPT ![i] = "err"]
            /\ pc' = [pc EXCEPT ![i] = "done"]
            /\ result' = [result EXCEPT ![i] = EmptyPair]
            /\ UNCHANGED bytes
    /\ UNCHANGED << platform, clock, fs, file, argv, child,
                    capturer, status, spawns >>

\* Lines 35-37: encode, format the data URL, return.
Return(i) ==
    /\ pc[i] = "encode"
    /\ result' = [result EXCEPT ![i] = Ok(file[i], DataUrl(Encode(bytes[i])))]
    /\ pc' = [pc EXCEPT ![i] = "done"]
    /\ UNCHANGED << platform, clock, fs, proc >>

\* One step of invocation i of capture_screen_interactive.
Step(i) ==
    \/ Unsupported(i)
    \/ MakePath(i)
    \/ SpawnOk(i)
    \/ SpawnFail(i)
    \/ CheckStatus(i)
    \/ Read(i)
    \/ Return(i)

\* One step of the child process invocation i launched.
ChildStep(i) ==
    \/ EnvExit(i)
    \/ ToolExit(i)

Next ==
    \/ \E i \in Inv : Step(i)
    \/ \E i \in Inv : ChildStep(i)

Spec == Init /\ [][Next]_vars

\* A call that was made keeps running (its caller awaits it; status() and
\* fs::read are synchronous calls that return), and a launched child ends.
\* Nothing makes the host application call.
FairSpec ==
    /\ Spec
    /\ \A i \in Inv : WF_vars(pc[i] # "idle" /\ Step(i))
    /\ \A i \in Inv : WF_vars(ChildStep(i))

(***************************************************************************)
(* Properties.                                                             *)
(***************************************************************************)
Succeeded(i) == child[i] = "exited" /\ status[i] = 0

Returned(i) == pc[i] = "done"

OutputArg(i) == argv[i][Len(argv[i])]

\* C1: on macOS, when the tool was launched, exited with success and the
\* output file was readable (an empty file included), the call returns
\* Ok((path, url)) with path non-empty and equal to the file path passed to
\* the tool, and url starting with "data:image/png;base64,".
C1_SuccessReturnsPathAndUrl ==
    \A i \in Inv :
        (Returned(i) /\ Succeeded(i) /\ readRes[i] = "ok") =>
            /\ result[i].kind = "Ok"
            /\ Len(result[i].path) > 0
            /\ result[i].path = OutputArg(i)
            /\ Len(result[i].url) >= 1
            /\ result[i].url[1] = "data:image/png;base64,"

\* Two calls have returned a capture, one of an empty file and one of a
\* file of the largest size.
C1_Witness ==
    \E i, j \in Inv :
        /\ Returned(i) /\ Succeeded(i) /\ readRes[i] = "ok" /\ bytes[i] = <<>>
        /\ Returned(j) /\ Succeeded(j) /\ readRes[j] = "ok" /\ Len(bytes[j]) = MaxLen
        /\ result[i].kind = "Ok" /\ result[j].kind = "Ok"

\* C2: on macOS, when the launched tool exits with a non-zero status, or
\* exits with success but the output file cannot be read, the call returns
\* Ok(("", "")), never an Err, the same value in both cases.
C2_FailureReturnsEmptyPair ==
    \A i \in Inv :
        (Returned(i) /\ child[i] = "exited" /\ (status[i] # 0 \/ readRes[i] = "err")) =>
            result[i] = Ok(<<>>, <<>>)

\* One call returned after a non-zero exit, another after a failed read,
\* and the two returned the same value.
C2_Witness ==
    \E i, j \in Inv :
        /\ Returned(i) /\ child[i] = "exited" /\ status[i] # 0
        /\ Returned(j) /\ Succeeded(j) /\ readRes[j] = "err"
        /\ result[i] = result[j]

\* C3: on every platform other than macOS the call returns
\* Err("unsupported") and spawns no process, computes no temp path, and
\* creates, reads or modifies no file.
C3_UnsupportedPlatform ==
    ~IsMacos(platform) =>
        /\ \A i \in Inv :
            /\ pc[i] \in {"idle", "done"}
            /\ Returned(i) => result[i] = Err(<<"unsupported">>)
            /\ spawns[i] = 0 /\ child[i] = "none" /\ argv[i] = NoArgv
            /\ file[i] = NoFile
            /\ reads[i] = 0 /\ readRes[i] = "none"
        /\ \A p \in Paths : ~fs[p].exists

\* Every call has returned on a platform other than macOS.
C3_Witness ==
    /\ ~IsMacos(platform)
    /\ \A i \in Inv : Returned(i)

\* The data URL of a returned capture decodes to the file at the returned
\* path.
DecodesToFile(i) ==
    /\ fs[result[i].path].exists
    /\ Decode(Tail(result[i].url)) = fs[result[i].path].data

\* C4: for every return Ok((path, url)) with non-empty path, stripping the
\* prefix from url and base64-decoding the rest gives exactly the bytes of
\* the file at path at the moment of return, also when another invocation's
\* tool writes the same path between this invocation's read and its return.
C4_UrlDecodesToFileAtReturn ==
    [][\A i \in Inv :
          (/\ ~Returned(i) /\ Returned(i)'
           /\ result'[i].kind = "Ok" /\ result'[i].path # <<>>) =>
              DecodesToFile(i)']_vars

\* The round trip of C4 for the calls whose path no other call shares.
UrlDecodesToFileWhenPathUnshared ==
    \A i \in Inv :
        (/\ Returned(i) /\ result[i].kind = "Ok" /\ result[i].path # <<>>
         /\ \A j \in Inv \ {i} : file[j] # file[i]) =>
            DecodesToFile(i)

\* C5: on macOS, when the process cannot be spawned, the call returns an
\* Err whose message starts with "failed to run screencapture: ", never an
\* Ok, and does not read the output file.
C5_LaunchFailureIsErr ==
    \A i \in Inv :
        child[i] = "failed" =>
            /\ Returned(i)
            /\ result[i].kind = "Err"
            /\ Len(result[i].msg) = 2
            /\ result[i].msg[1] = "failed to run screencapture: "
            /\ result[i].msg[2] \in SpawnErrors
            /\ reads[i] = 0 /\ readRes[i] = "none"

\* A call whose launch failed has returned.
C5_Witness ==
    \E i \in Inv : child[i] = "failed" /\ Returned(i)

\* C6 as claimed: in every invocation the executable that performs the
\* capture is the same fixed path, whatever the caller's PATH is.
C6_SameCaptureExecutable ==
    \A i, j \in Inv :
        (/\ child[i] = "running" /\ capturer[i] # NotFound
         /\ child[j] = "running" /\ capturer[j] # NotFound) =>
            capturer[i] = capturer[j]

\* C6, amended: the program launched is always the fixed absolute path
\* /usr/bin/env, with the fixed arguments screencapture -i -s -o followed by
\* the output file path, the only argument that varies; the executable that
\* performs the capture is the one env finds for the name screencapture in
\* the caller's PATH.
C6_FixedCommandLine ==
    \A i \in Inv :
        /\ argv[i] # NoArgv =>
              argv[i] = <<"/usr/bin/env", "screencapture", "-i", "-s", "-o", file[i]>>
        /\ (child[i] = "running" /\ capturer[i] # NotFound) =>
              /\ capturer[i][2] = "screencapture"
              /\ \E dirs \in PathEnvs : capturer[i] = Resolve(dirs, argv[i][2])

\* Two tools run at once, launched by the same command line up to the
\* output file, and they are different executables.
C6_Witness ==
    \E i, j \in Inv :
        /\ child[i] = "running" /\ capturer[i] # NotFound
        /\ child[j] = "running" /\ capturer[j] # NotFound
        /\ capturer[i] # capturer[j]
        /\ SubSeq(argv[i], 1, 5) = SubSeq(argv[j], 1, 5)

\* C7: within one invocation the tool is spawned at most once, the output
\* file is read at most once, and it is read only after the tool has exited
\* with success, never after a non-zero exit or a failed launch.
C7_SpawnOnceReadOnceInOrder ==
    \A i \in Inv :
        /\ spawns[i] <= 1
        /\ reads[i] <= 1
        /\ reads[i] >= 1 => (spawns[i] = 1 /\ Succeeded(i))
        /\ pc[i] \in {"read", "encode"} => Succeeded(i)
        /\ (Returned(i) /\ IsMacos(platform)) => spawns[i] = 1

\* One call has read the file after a successful exit; another returned
\* after a non-zero exit without reading, having spawned once.
C7_Witness ==
    \E i, j \in Inv :
        /\ reads[i] = 1 /\ spawns[i] = 1 /\ Returned(i)
        /\ Returned(j) /\ child[j] = "exited" /\ status[j] # 0
        /\ reads[j] = 0 /\ spawns[j] = 1

\* C8: the function never deletes, truncates or writes the temp file: the
\* temp directory changes only in a step in which a child process ends,
\* only at the path that child was given, and no file there ever ceases to
\* exist, so a file the tool produced is still there after the call.
C8_FunctionLeavesFileAlone ==
    [][ /\ \A p \in Paths : fs[p].exists => fs'[p].exists
        /\ \A p \in Paths :
              fs'[p] # fs[p] =>
                  \E i \in Inv : /\ child[i] = "running"
                                 /\ child'[i] = "exited"
                                 /\ p = OutputArg(i) ]_vars

\* A call returned the empty pair and the file its tool wrote is still
\* there; another call has read its file and returned, and the file is
\* still there.
C8_Witness ==
    \E i, j \in Inv :
        /\ Returned(i) /\ status[i] = 1 /\ result[i] = EmptyPair
        /\ fs[file[i]].exists
        /\ Returned(j) /\ readRes[j] = "ok" /\ file[j] # file[i]
        /\ fs[file[j]].exists

\* C9: the temp file path of one invocation is never the path given to
\* another invocation's tool, nor the path another invocation reads.
C9_PathsNeverShared ==
    \A i, j \in Inv :
        (i # j /\ file[i] # NoFile /\ file[j] # NoFile) =>
            /\ file[i] # file[j]
            /\ argv[j] # NoArgv => OutputArg(j) # file[i]

\* C10: the call never returns while the tool it launched is still running
\* (so it never returns if the tool never ends); it returns exactly one
\* result; and, the tool eventually ending, every call that was made
\* eventually returns.
C10_BlocksUntilExitThenReturns ==
    /\ [](\A i \in Inv : Returned(i) => child[i] # "running")
    /\ [](\A i \in Inv : Returned(i) <=> result[i] # NoResult)
    /\ [][\A i \in Inv : Returned(i) => (Returned(i)' /\ result'[i] = result[i])]_vars
    /\ \A i \in Inv : (pc[i] # "idle") ~> Returned(i)

\* A call that launched the tool and waited for it has returned.
C10_Witness ==
    \E i \in Inv : Returned(i) /\ child[i] = "exited" /\ result[i] # NoResult

====
